---- MODULE Spec2Model ----
(***************************************************************************)
(* Model of main.py: vacancy statistics for a catalog of programming       *)
(* languages collected from two job boards (HH: count-of-pages             *)
(* pagination, SJ: more-flag pagination), salary normalisation and the     *)
(* per-language aggregation.                                               *)
(*                                                                         *)
(* Numbers.  Python's None is the integer None (-1), the TypeError raised  *)
(* by int(None) is the integer TypeError (-2); every salary is a natural   *)
(* number.  predict_rub_salary returns a float: it is modelled exactly, as *)
(* a number of tenths (Scale == 10), so (a+b)/2 is 5*(a+b), a*1.2 is 12*a  *)
(* and b*0.8 is 8*b.  int() truncates tenths to units.                     *)
(***************************************************************************)
EXTENDS Integers, Sequences, FiniteSets, TLC

----------------------------------------------------------------------------
(* Bounds of the model *)

\* the catalog, cut to two of its fourteen languages
LANGUAGES == <<"Go", "Python">>
\* requests one fetch may issue before the model stops following it
MaxPage == 3
\* largest salary bound drawn for the normalisers
MaxSalary == 6

----------------------------------------------------------------------------
(* Values *)

None == -1
TypeError == -2
Scale == 10

\* bool(x) of an int-or-None value
Truthy(x) == x # None /\ x # 0

RECURSIVE SumSeq(_)
SumSeq(s) == IF s = <<>> THEN 0 ELSE Head(s) + SumSeq(Tail(s))

\* list(filter(None, s)): keeps the truthy elements, in order
RECURSIVE FilterNone(_)
FilterNone(s) ==
    IF s = <<>> THEN <<>>
    ELSE IF Truthy(Head(s)) THEN <<Head(s)>> \o FilterNone(Tail(s))
    ELSE FilterNone(Tail(s))

----------------------------------------------------------------------------
(* Salary estimation *)

\* an estimator with the two extrapolation factors exchanged
predict_rub_salary_swapped(salary_from, salary_to) ==
    IF Truthy(salary_from) /\ Truthy(salary_to) THEN 5 * (salary_from + salary_to)
    ELSE IF Truthy(salary_from) THEN 8 * salary_from
    ELSE IF Truthy(salary_to) THEN 12 * salary_to
    ELSE None

\* predict_rub_salary: the result in tenths, or None when the function
\* falls off its end
predict_rub_salary(salary_from, salary_to) ==
    IF Truthy(salary_from) /\ Truthy(salary_to) THEN 5 * (salary_from + salary_to)
    ELSE IF Truthy(salary_from) THEN 12 * salary_from
    ELSE IF Truthy(salary_to) THEN 8 * salary_to
    ELSE None

\* int(x) of an estimator result: truncation, TypeError on None
ToInt(x) == IF x = None THEN TypeError ELSE x \div Scale

\* an HH vacancy's "salary" value: null (isNone) or an object with
\* currency, from, to
HHVacancy(isNone, currency, from, to) ==
    [isNone |-> isNone, currency |-> currency, from |-> from, to |-> to]

\* an SJ vacancy as kept by the fetch: payment_from, payment_to (town is
\* kept too and never read)
SJVacancy(payment_from, payment_to) ==
    [payment_from |-> payment_from, payment_to |-> payment_to]

predict_rub_salary_hh(vacancy) ==
    IF vacancy.isNone \/ vacancy.currency # "RUR" THEN None
    ELSE ToInt(predict_rub_salary(vacancy.from, vacancy.to))

\* a normaliser that gives up as soon as one bound is missing
predict_rub_salary_sj_either(vacancy) ==
    IF ~Truthy(vacancy.payment_from) \/ ~Truthy(vacancy.payment_to) THEN None
    ELSE ToInt(predict_rub_salary(vacancy.payment_from, vacancy.payment_to))

predict_rub_salary_sj(vacancy) ==
    IF ~Truthy(vacancy.payment_from) /\ ~Truthy(vacancy.payment_to) THEN None
    ELSE ToInt(predict_rub_salary(vacancy.payment_from, vacancy.payment_to))

----------------------------------------------------------------------------
(* Aggregation of one language *)

\* the normaliser main hands to get_vacancies_stat for backend b
predict_salary(b, vacancy) ==
    IF b = "hh" THEN predict_rub_salary_hh(vacancy)
    ELSE predict_rub_salary_sj(vacancy)

\* map(predict_salary, items): the estimates, absent ones included
Estimates(b, items) == [i \in 1..Len(items) |-> predict_salary(b, items[i])]

\* lines 219-230 of get_vacancies_stat: the statistics of one language from
\* the fetched salaries
LanguageStatistics(b, fetched) ==
    LET valid_salaries == FilterNone(Estimates(b, fetched.items))
        vacancies_processed_count == Len(valid_salaries)
        total_sum_salary == SumSeq(valid_salaries)
    IN  [vacancies_found |-> fetched.found,
         vacancies_processed |-> vacancies_processed_count,
         average_salary |-> IF vacancies_processed_count # 0
                            THEN total_sum_salary \div vacancies_processed_count
                            ELSE 0]

\* map() raises as soon as the normaliser raises on an item
RaisesTypeError(b, items) ==
    \E i \in 1..Len(items) : Estimates(b, items)[i] = TypeError

----------------------------------------------------------------------------
(* The backends' answers *)

Backends == {"hh", "sj"}

\* total match counts a backend reports
FoundVals == {0, 7}

\* salary objects of HH vacancies on a page
HHRecords ==
    { HHVacancy(TRUE, "none", None, None),
      HHVacancy(FALSE, "USD", 3, 3),
      HHVacancy(FALSE, "RUR", None, None),
      HHVacancy(FALSE, "RUR", None, 1),
      HHVacancy(FALSE, "RUR", 3, None) }

\* SJ vacancies on a page (SJ reports an unstated bound as 0)
SJRecords ==
    { SJVacancy(0, 0),
      SJVacancy(0, 1),
      SJVacancy(3, 0) }

\* the item lists one page may carry
PageItems(b) ==
    {<<>>} \cup { <<r>> : r \in IF b = "hh" THEN HHRecords ELSE SJRecords }

----------------------------------------------------------------------------
(* State *)

VARIABLES
    pc,                  \* main: the backend being aggregated, or "done"
    at,                  \* position inside the aggregation of pc
    exc,                 \* the exception in flight, or "none"
    language,            \* index in LANGUAGES of the language being fetched
    page,                \* the fetch's page counter
    salaries,            \* hh_salaries / sj_salaries: found and items
    vacancy_statistics,  \* get_vacancies_stat's table, in catalog order
    printed,             \* backends whose table was rendered
    messages,            \* backends whose failure message was printed
    requests,            \* observer: page indices requested by this fetch
    responses,           \* observer: pages / more of its responses, in order
    reported,            \* observer: found of its first and last response, items sent
    http_failed,         \* observer: backends that answered a non-success status
    arg, fn, res         \* a single call of a normaliser: input, function, result

vars == <<pc, at, exc, language, page, salaries, vacancy_statistics, printed,
          messages, requests, responses, reported, http_failed, arg,
          fn, res>>

pipeline == <<pc, at, exc, language, page, salaries, vacancy_statistics,
              printed, messages, requests, responses, reported,
              http_failed>>
calls == <<arg, fn, res>>

----------------------------------------------------------------------------
(* Inputs of a single normaliser call *)

Currencies == {"RUR", "USD", "none"}
SalaryVals == {None} \cup 0..MaxSalary
Args == { HHVacancy(n, c, f, t) :
            n \in BOOLEAN, c \in Currencies, f \in SalaryVals, t \in SalaryVals }
NoArg == HHVacancy(TRUE, "none", None, None)

----------------------------------------------------------------------------
(* The pipeline: main, get_vacancies_stat and the two fetches *)

\* the observer's record after a response with this found and these items
Observe(found, items) ==
    [first |-> IF responses = <<>> THEN found ELSE reported.first,
     last |-> found,
     count |-> reported.count + Len(items)]

\* a fetch that keeps the total of its first page only
StoreFound_first_page_only(current, found) == IF current = None THEN found ELSE current

\* hh_salaries["found"] = ... / sj_salaries["found"] = ..., run on every page
StoreFound(current, found) == found

\* an exit test that fetches one page too many
HHBreak_strict(next_page, pages) == next_page > pages

\* the exit test of the HH loop, on the incremented page counter
HHBreak(next_page, pages) == next_page >= pages

\* a loop that never advances its page counter
SJNextPage_stuck(current_page, more) == current_page

\* the SJ loop: break when "more" is false, else page += 1
SJNextPage(current_page, more) == IF more THEN current_page + 1 ELSE current_page

\* entry of a fetch: the empty result and page 0
StartFetch ==
    /\ salaries' = [found |-> None, items |-> <<>>]
    /\ page' = 0
    /\ requests' = <<>>
    /\ responses' = <<>>
    /\ reported' = [first |-> None, last |-> None, count |-> 0]

\* entry of get_vacancies_stat: an empty table, the first language
StartRun ==
    /\ vacancy_statistics' = <<>>
    /\ language' = 1
    /\ at' = "request"
    /\ exc' = "none"
    /\ StartFetch

\* main moves past the backend pc: to the SJ aggregation, or to its end
NextBackend ==
    IF pc = "hh"
    THEN /\ pc' = "sj"
         /\ StartRun
    ELSE /\ pc' = "done"
         /\ at' = "exit"
         /\ exc' = "none"
         /\ UNCHANGED <<language, page, salaries, vacancy_statistics,
                        requests, responses, reported>>

\* a fetch that answers a failed request with the pages it already has
RaiseInFetch_partial(e) ==
    /\ exc' = "none"
    /\ at' = "aggregate"
    /\ requests' = Append(requests, page)
    /\ http_failed' = IF e = "HTTPError" THEN http_failed \cup {pc} ELSE http_failed
    /\ UNCHANGED <<pc, language, page, salaries, vacancy_statistics, printed,
                   messages, responses, reported>>

\* requests.get or raise_for_status raises: the fetch and
\* get_vacancies_stat are left with the exception in flight
RaiseInFetch(e) ==
    /\ exc' = e
    /\ at' = "raised"
    /\ requests' = Append(requests, page)
    /\ http_failed' = IF e = "HTTPError" THEN http_failed \cup {pc} ELSE http_failed
    /\ UNCHANGED <<pc, language, page, salaries, vacancy_statistics, printed,
                   messages, responses, reported>>

\* one iteration of the loop of get_hh_salaries_by_language
HHPage ==
    /\ pc = "hh" /\ at = "request" /\ page < MaxPage
    /\ \/ \E found \in FoundVals, pages \in 0..MaxPage, items \in PageItems("hh") :
            /\ salaries' = [found |-> StoreFound(salaries.found, found),
                            items |-> salaries.items \o items]
            /\ page' = page + 1
            /\ at' = IF HHBreak(page + 1, pages) THEN "aggregate" ELSE "request"
            /\ requests' = Append(requests, page)
            /\ responses' = Append(responses, [pages |-> pages, more |-> FALSE])
            /\ reported' = Observe(found, items)
            /\ UNCHANGED <<pc, exc, language, vacancy_statistics, printed,
                           messages, http_failed>>
       \/ RaiseInFetch("HTTPError")
       \/ RaiseInFetch("ConnectionError")
    /\ UNCHANGED calls

\* one iteration of the loop of get_sj_salaries_by_language
SJPage ==
    /\ pc = "sj" /\ at = "request" /\ page < MaxPage
    /\ \/ \E found \in FoundVals, more \in BOOLEAN, items \in PageItems("sj") :
            /\ salaries' = [found |-> StoreFound(salaries.found, found),
                            items |-> salaries.items \o items]
            /\ page' = SJNextPage(page, more)
            /\ at' = IF more THEN "request" ELSE "aggregate"
            /\ requests' = Append(requests, page)
            /\ responses' = Append(responses, [pages |-> 0, more |-> more])
            /\ reported' = Observe(found, items)
            /\ UNCHANGED <<pc, exc, language, vacancy_statistics, printed,
                           messages, http_failed>>
       \/ RaiseInFetch("HTTPError")
       \/ RaiseInFetch("ConnectionError")
    /\ UNCHANGED calls

\* the body of get_vacancies_stat's loop after the fetch returned, and the
\* entry of the next language's fetch
Aggregate ==
    /\ pc \in Backends /\ at = "aggregate"
    /\ IF RaisesTypeError(pc, salaries.items)
       THEN /\ exc' = "TypeError"
            /\ at' = "raised"
            /\ UNCHANGED <<language, page, salaries, vacancy_statistics,
                           requests, responses, reported>>
       ELSE /\ vacancy_statistics' =
                   Append(vacancy_statistics, LanguageStatistics(pc, salaries))
            /\ exc' = "none"
            /\ IF language < Len(LANGUAGES)
               THEN /\ language' = language + 1
                    /\ at' = "request"
                    /\ StartFetch
               ELSE /\ at' = "return"
                    /\ UNCHANGED <<language, page, salaries, requests, responses,
                                   reported>>
    /\ UNCHANGED <<pc, printed, messages, http_failed>>
    /\ UNCHANGED calls

\* main's else branch: the table is rendered
Render ==
    /\ pc \in Backends /\ at = "return"
    /\ printed' = printed \cup {pc}
    /\ NextBackend
    /\ UNCHANGED <<messages, http_failed>>
    /\ UNCHANGED calls

\* main's except HTTPError clause; any other exception leaves main
Handle ==
    /\ pc \in Backends /\ at = "raised"
    /\ IF exc = "HTTPError"
       THEN /\ messages' = messages \cup {pc}
            /\ NextBackend
       ELSE /\ at' = "crash"
            /\ UNCHANGED <<pc, exc, language, page, salaries, vacancy_statistics,
                           messages, requests, responses, reported>>
    /\ UNCHANGED <<printed, http_failed>>
    /\ UNCHANGED calls

Init ==
    /\ pc = "hh"
    /\ at = "request"
    /\ exc = "none"
    /\ language = 1
    /\ page = 0
    /\ salaries = [found |-> None, items |-> <<>>]
    /\ vacancy_statistics = <<>>
    /\ printed = {}
    /\ messages = {}
    /\ requests = <<>>
    /\ responses = <<>>
    /\ reported = [first |-> None, last |-> None, count |-> 0]
    /\ http_failed = {}
    /\ arg = NoArg /\ fn = "none" /\ res = None

Next == HHPage \/ SJPage \/ Aggregate \/ Render \/ Handle

Spec == Init /\ [][Next]_vars

----------------------------------------------------------------------------
(* Single calls of the estimator and the normalisers *)

CallEstimator ==
    /\ fn = "none"
    /\ fn' = "predict_rub_salary"
    /\ res' = predict_rub_salary(arg.from, arg.to)
    /\ UNCHANGED arg
    /\ UNCHANGED pipeline

CallHH ==
    /\ fn = "none"
    /\ fn' = "predict_rub_salary_hh"
    /\ res' = predict_rub_salary_hh(arg)
    /\ UNCHANGED arg
    /\ UNCHANGED pipeline

CallSJ ==
    /\ fn = "none"
    /\ fn' = "predict_rub_salary_sj"
    /\ res' = predict_rub_salary_sj(SJVacancy(arg.from, arg.to))
    /\ UNCHANGED arg
    /\ UNCHANGED pipeline

PureInit ==
    /\ pc = "done"
    /\ at = "exit"
    /\ exc = "none"
    /\ language = 1
    /\ page = 0
    /\ salaries = [found |-> None, items |-> <<>>]
    /\ vacancy_statistics = <<>>
    /\ printed = {}
    /\ messages = {}
    /\ requests = <<>>
    /\ responses = <<>>
    /\ reported = [first |-> None, last |-> None, count |-> 0]
    /\ http_failed = {}
    /\ arg \in Args /\ fn = "none" /\ res = None

PureNext == CallEstimator \/ CallHH \/ CallSJ

PureSpec == PureInit /\ [][PureNext]_vars

----------------------------------------------------------------------------
(* Properties of the fetches *)

\* <<0, 1, ..., n-1>>
PagesUpTo(n) == [i \in 1..n |-> i - 1]

\* every response of the running fetch reported the page count n
EveryResponseReports(n) ==
    /\ responses # <<>>
    /\ \A i \in 1..Len(responses) : responses[i].pages = n

\* C1: against an HH backend that reports the same page count N in every
\* response, the fetch requests pages 0..N-1 in order, each once, and then
\* returns; while it has not returned it has requested a prefix of them.  With
\* N = 0 it requests page 0 only, and a zero-match answer (found 0, no items)
\* is returned as found 0 and an empty list.
C1_CountOfPages ==
    pc = "hh" =>
        \A n \in 0..MaxPage :
            EveryResponseReports(n) =>
                /\ at = "aggregate" =>
                       requests = PagesUpTo(IF n = 0 THEN 1 ELSE n)
                /\ at = "request" =>
                       /\ requests = PagesUpTo(Len(requests))
                       /\ Len(requests) < n
                /\ (n = 0 /\ reported.first = 0 /\ reported.count = 0) =>
                       salaries = [found |-> 0, items |-> <<>>]

\* a three-page fetch has returned after requesting pages 0, 1, 2
C1_Witness ==
    /\ pc = "hh" /\ at = "aggregate"
    /\ EveryResponseReports(3)
    /\ requests = <<0, 1, 2>>

\* C2: the SJ fetch requests pages 0, 1, 2, ... in order while the answers
\* carry more = true, and returns exactly at the first answer with
\* more = false: k true answers and then a false one make k+1 requests, and no
\* answer follows a false one.
C2_MoreFlag ==
    pc = "sj" /\ at \in {"request", "aggregate"} =>
        /\ requests = PagesUpTo(Len(responses))
        /\ \A i \in 1..Len(responses) :
               responses[i].more <=> ~(at = "aggregate" /\ i = Len(responses))
        /\ at = "aggregate" => responses # <<>>

\* more was true for pages 0 and 1 and false for page 2: three requests
C2_Witness ==
    /\ pc = "sj" /\ at = "aggregate"
    /\ Len(responses) = 3
    /\ responses[1].more /\ responses[2].more /\ ~responses[3].more
    /\ requests = <<0, 1, 2>>

\* C3: once a page request of backend b was answered with a non-success
\* status, the aggregation of b is stopped with the HTTPError in flight until
\* main leaves it: it is never again at a request, the fetch never returns a
\* result, get_vacancies_stat never returns, and no table of b is rendered.
C3_FailurePropagates ==
    \A b \in Backends :
        b \in http_failed =>
            /\ b \notin printed
            /\ pc = b => (at = "raised" /\ exc = "HTTPError")

\* page 1 of the second language's fetch failed, after the first language's
\* entry was already in the table
C3_Witness ==
    /\ pc = "hh" /\ at = "raised" /\ exc = "HTTPError"
    /\ "hh" \in http_failed
    /\ language = 2
    /\ requests = <<0, 1>>
    /\ Len(vacancy_statistics) = 1

\* C8 as stated: the found a fetch returns is the total its page-0 response
\* reported.
C8_FirstPageFound ==
    (pc \in Backends /\ at = "aggregate") => salaries.found = reported.first

\* C8, amended: the found a fetch returns is the total reported by the last
\* response it received, whatever the number of accumulated records.
C8_LastPageFound ==
    (pc \in Backends /\ at = "aggregate") => salaries.found = reported.last

\* a two-page fetch whose pages reported different totals, neither of them
\* the number of records
C8_Witness ==
    /\ pc \in Backends /\ at = "aggregate"
    /\ Len(responses) = 2
    /\ reported.first = 0 /\ reported.last = 7
    /\ salaries.found = 7
    /\ Len(salaries.items) = 2

\* the ceiling on the pages of one fetch that the specification asks for
PageCeiling == 2

\* C9: a fetch that has requested PageCeiling pages without getting the
\* terminal signal stops (with a ProtocolError) instead of requesting another.
C9_StopsAtCeiling ==
    (pc \in Backends /\ at = "request") => Len(requests) < PageCeiling

----------------------------------------------------------------------------
(* Properties of the aggregation and of main *)

Present(estimate) == estimate # None

\* C4: the statistics record written for a language counts every present
\* estimate of the fetched records, an estimate of 0 included, and its average
\* is the floor of their mean, 0 when there is none.
C4_StatisticsOfPresentEstimates ==
    [][ (pc \in Backends /\ at = "aggregate"
            /\ Len(vacancy_statistics') = Len(vacancy_statistics) + 1) =>
        LET kept == SelectSeq(Estimates(pc, salaries.items), Present)
            written == vacancy_statistics'[Len(vacancy_statistics')]
        IN  /\ written.vacancies_processed = Len(kept)
            /\ written.vacancies_processed <= Len(salaries.items)
            /\ written.average_salary =
                   IF Len(kept) > 0 THEN SumSeq(kept) \div Len(kept) ELSE 0 ]_vars

TransportErrors == {"HTTPError", "ConnectionError"}

\* C10: a transport error of the HH aggregation, of either kind, is handled
\* by main: no HH table is rendered and main goes on to the SJ aggregation,
\* so the error never ends main inside the HH aggregation.
C10_OtherBackendStillRuns ==
    (pc = "hh" /\ exc \in TransportErrors) =>
        (at = "raised" /\ "hh" \notin printed)

----------------------------------------------------------------------------
(* Properties of the estimator and the normalisers *)

\* C5 as stated: a bound counts as present when it holds a number, 0
\* included; the estimator returns (lower + upper) / 2, lower * 1.2,
\* upper * 0.8 or nothing accordingly.
C5_EstimatorZeroPresent ==
    fn = "predict_rub_salary" =>
        LET lower == arg.from
            upper == arg.to
        IN  res = CASE lower # None /\ upper # None -> 5 * (lower + upper)
                    [] lower # None /\ upper = None -> 12 * lower
                    [] lower = None /\ upper # None -> 8 * upper
                    [] OTHER -> None

\* C5, amended: a bound counts as present when it holds a number other than
\* 0 (None and 0 both count as absent); the estimator returns
\* (lower + upper) / 2, lower * 1.2, upper * 0.8 or nothing accordingly.
C5_EstimatorZeroAbsent ==
    fn = "predict_rub_salary" =>
        LET lower == arg.from
            upper == arg.to
            has_lower == lower \in 1..MaxSalary
            has_upper == upper \in 1..MaxSalary
        IN  /\ (has_lower /\ has_upper) => res * 2 = Scale * (lower + upper)
            /\ (has_lower /\ ~has_upper) => res * 10 = Scale * lower * 12
            /\ (~has_lower /\ has_upper) => res * 10 = Scale * upper * 8
            /\ (~has_lower /\ ~has_upper) => res = None

\* a lower bound of 0 is treated as absent: 0.8 of the upper bound
C5_Witness ==
    /\ fn = "predict_rub_salary"
    /\ arg.from = 0 /\ arg.to = 5
    /\ res = 40

\* C6: predict_rub_salary_hh never raises: it returns nothing for a null
\* record and for a currency other than RUR, nothing for a RUR record with
\* neither bound, and otherwise the truncated estimate.
C6_HHNormalizerTotal ==
    fn = "predict_rub_salary_hh" =>
        /\ res # TypeError
        /\ (arg.isNone \/ arg.currency # "RUR") => res = None
        /\ (~arg.isNone /\ arg.currency = "RUR") =>
               LET estimate == predict_rub_salary(arg.from, arg.to)
               IN  res = IF estimate = None THEN None ELSE estimate \div Scale

\* C7: predict_rub_salary_sj returns nothing exactly when both bounds are
\* absent or zero, and otherwise an integer, the truncated estimate.
C7_SJNormalizer ==
    fn = "predict_rub_salary_sj" =>
        LET lower == arg.from
            upper == arg.to
            no_lower == lower \in {None, 0}
            no_upper == upper \in {None, 0}
        IN  /\ (res = None) <=> (no_lower /\ no_upper)
            /\ ~(no_lower /\ no_upper) =>
                   /\ res \in Nat
                   /\ res = IF no_upper THEN (12 * lower) \div 10
                            ELSE IF no_lower THEN (8 * upper) \div 10
                            ELSE (lower + upper) \div 2

\* only the upper bound is stated: 0.8 * 6 = 4.8, truncated to 4
C7_Witness ==
    /\ fn = "predict_rub_salary_sj"
    /\ arg.from = 0 /\ arg.to = 6
    /\ res = 4

====
